---- MODULE Spec2Model ----
(***************************************************************************)
(* Invoice -> Bill of Lading generator (src/main.py).                       *)
(*                                                                         *)
(* Strings.  A Python str is modelled as a sequence of lexemes; the string  *)
(* is the concatenation of its lexemes, "" is << >>.  A lexeme is a word of *)
(* letters, one digit, one punctuation character, one blank " " or one     *)
(* line break "\n"; a word that mixes letters and digits (a container       *)
(* number) is spelled with one-character lexemes, and a word is cut where a *)
(* pattern can match inside it ("Ex", "port", "er").                        *)
(* Regular expressions are transcribed node by node and run by a           *)
(* backtracking matcher with Python's priorities (leftmost match, greedy    *)
(* and lazy repetition, ordered alternation, lookahead).                    *)
(***************************************************************************)
EXTENDS Integers, Sequences, FiniteSets, TLC

\* ------------------------------------------------------------------ lexemes

\* The digits (matched by \d and [0-9]): a number is spelled digit by digit.
DigitWords == {"0", "1", "2", "3", "4", "5", "6", "7", "8", "9"}

Blank == {" ", "\t"}
Newline == {"\n", "\r"}
WS == Blank \cup Newline
Punct == {":", ".", "-", "/", "&", ",", "'", "\"", "(", ")", "|", "_"}

\* The character category of a lexeme: a blank, a line break or a punctuation
\* character is its own category, every other lexeme is a digit run or a word.
OwnCategory == WS \cup Punct
Cat(w) ==
  IF w \in OwnCategory THEN w
  ELSE IF w \in DigitWords THEN "digit" ELSE "alpha"

\* Character classes of the patterns, as sets of categories.
AnyCh == {"alpha", "digit"} \cup WS \cup Punct           \* . under DOTALL, [\s\S]
NotNL == AnyCh \ {"\n"}                                   \* [^\n]
Alnum == {"alpha", "digit"}                             \* [A-Z0-9]
AlnumDashSlash == {"alpha", "digit", "-", "/"}          \* [A-Z0-9\-\/]
AlphaSp == {"alpha", " "}                               \* [A-Za-z ]
AlphaSpDash == {"alpha", " ", "-"}                      \* [A-Za-z \-]
AlphaSpComma == {"alpha", " ", ","}                     \* [A-Za-z ,]
VesselCls == {"alpha", "digit", " ", ".", "-", "/"}     \* [A-Za-z0-9 .\-\/]
DigitComma == {"digit", ","}                            \* [\d,] [0-9,]
DigitDot == {"digit", "."}                              \* [0-9\.]
DigitCommaDot == {"digit", ",", "."}                    \* [0-9,.]
Digit == {"digit"}                                      \* \d
PreHsCls == {"alpha", "digit", " ", ",", "-", "/", "(", ")"}  \* [A-Z0-9 ,\-\/()]

\*LOWER-BEGIN
\* The words of the module that have an upper-case letter, each with its
\* str.lower().
LowerPairs ==
  {<<"A", "a">>, <<"AGENCIES", "agencies">>, <<"APL", "apl">>,
   <<"AS", "as">>, <<"Acme", "acme">>, <<"B", "b">>, <<"BL", "bl">>,
   <<"BLUE", "blue">>, <<"Beta", "beta">>, <<"C", "c">>,
   <<"CARTONS", "cartons">>, <<"CGM", "cgm">>, <<"CMA", "cma">>,
   <<"CODE", "code">>, <<"CONSIGNEE", "consignee">>,
   <<"Consignee", "consignee">>, <<"Container", "container">>,
   <<"Corp", "corp">>, <<"D", "d">>, <<"Delhi", "delhi">>,
   <<"Delivery", "delivery">>, <<"Discharge", "discharge">>,
   <<"Dubai", "dubai">>, <<"E", "e">>, <<"EVER", "ever">>, <<"Ex", "ex">>,
   <<"F", "f">>, <<"FOUND", "found">>, <<"FREIGHT", "freight">>,
   <<"G", "g">>, <<"GIVEN", "given">>, <<"GROSS", "gross">>,
   <<"GULF", "gulf">>, <<"H", "h">>, <<"HAI", "hai">>,
   <<"HAMBURG", "hamburg">>, <<"HARBOUR", "harbour">>, <<"HS", "hs">>,
   <<"Hamburg", "hamburg">>, <<"I", "i">>, <<"INV", "inv">>,
   <<"INVOICE", "invoice">>, <<"Invoice", "invoice">>, <<"J", "j">>,
   <<"K", "k">>, <<"KGS", "kgs">>, <<"L", "l">>, <<"LINE", "line">>,
   <<"LINES", "lines">>, <<"LLC", "llc">>, <<"LOGISTICS", "logistics">>,
   <<"LORETO", "loreto">>, <<"LTD", "ltd">>, <<"Loading", "loading">>,
   <<"Ltd", "ltd">>, <<"M", "m">>, <<"MAERSK", "maersk">>,
   <<"MEASUREMENT", "measurement">>, <<"MSC", "msc">>, <<"MTS", "mts">>,
   <<"Mumbai", "mumbai">>, <<"N", "n">>, <<"NET", "net">>,
   <<"NEVADA", "nevada">>, <<"NORTH", "north">>, <<"NOT", "not">>,
   <<"Net", "net">>, <<"No", "no">>, <<"Notify", "notify">>, <<"O", "o">>,
   <<"OCEAN", "ocean">>, <<"OHIO", "ohio">>, <<"ONE", "one">>, <<"P", "p">>,
   <<"PACIFIC", "pacific">>, <<"PACKING", "packing">>, <<"PCS", "pcs">>,
   <<"PDF", "pdf">>, <<"PTE", "pte">>, <<"Party", "party">>,
   <<"Payment", "payment">>, <<"Place", "place">>, <<"Port", "port">>,
   <<"Q", "q">>, <<"QUANTITY", "quantity">>, <<"R", "r">>,
   <<"Receipt", "receipt">>, <<"Rotterdam", "rotterdam">>, <<"S", "s">>,
   <<"SAME", "same">>, <<"SEA", "sea">>, <<"SERVICES", "services">>,
   <<"SHIPPING", "shipping">>, <<"STAR", "star">>, <<"Same", "same">>,
   <<"Seal", "seal">>, <<"Singapore", "singapore">>, <<"T", "t">>,
   <<"TOKYO", "tokyo">>, <<"TOTAL", "total">>, <<"Tea", "tea">>,
   <<"Terms", "terms">>, <<"U", "u">>, <<"USD", "usd">>,
   <<"Unknown", "unknown">>, <<"V", "v">>, <<"Vessel", "vessel">>,
   <<"Voyage", "voyage">>, <<"W", "w">>, <<"WAN", "wan">>,
   <<"WEIGHT", "weight">>, <<"X", "x">>, <<"Y", "y">>, <<"Z", "z">>}
Lower == [w \in {p[1] : p \in LowerPairs} |-> (CHOOSE p \in LowerPairs : p[1] = w)[2]]
\*LOWER-END

\* re.IGNORECASE: lexemes are compared after case folding.
HasUpper == DOMAIN Lower
Fold(w) == IF w \in HasUpper THEN Lower[w] ELSE w

Inf == 10 ^ 6

\* ------------------------------------------------------------ regex nodes

Lit(w) == [k |-> "lit", w |-> w]
Rep(cls, lo, hi, greedy) ==
  [k |-> "rep", cls |-> cls, lo |-> lo, hi |-> hi, greedy |-> greedy]
Alt(alts) == [k |-> "alt", alts |-> alts]
Open(g) == [k |-> "open", g |-> g]
Close(g) == [k |-> "close", g |-> g]
\* What a match of re can start with: lexemes, AtLineEnd when it can match
\* empty at the end of the subject or of a line, Anything when it is not known.
Anything == "*"
AtLineEnd == "$"
RECURSIVE FirstOf(_)
FirstOf(re) ==
  IF re = << >> THEN {Anything}
  ELSE LET n == re[1] IN
    CASE n.k = "lit" -> {n.w}
      [] n.k = "in" -> n.set
      [] n.k = "alt" -> UNION {FirstOf(n.alts[a]) : a \in 1..Len(n.alts)}
      [] n.k \in {"open", "close"} -> FirstOf(Tail(re))
      [] n.k \in {"end", "endline"} -> {AtLineEnd}
      [] OTHER -> {Anything}
Look(alts) ==
  [k |-> "look", alts |-> alts,
   first |-> UNION {FirstOf(alts[a]) : a \in 1..Len(alts)}]
In(set) == [k |-> "in", set |-> set]
End == [k |-> "end"]
EndLine == [k |-> "endline"]

Ws0 == Rep(WS, 0, Inf, TRUE)                  \* \s*
Sep == Rep({":", "-"}, 0, 1, TRUE)            \* [:\-]?
OptDot == Rep({"."}, 0, 1, TRUE)              \* \.?
LazyAny == Rep(AnyCh, 0, Inf, FALSE)            \* .*? or [\s\S]*? under DOTALL
Plus(cls) == Rep(cls, 1, Inf, TRUE)           \* [cls]+
Words(ws) == [i \in 1..Len(ws) |-> Lit(ws[i])]

RECURSIVE Phrase(_)
\* w1\s*w2\s*...wn
Phrase(ws) ==
  IF Len(ws) = 0 THEN << >>
  ELSE IF Len(ws) = 1 THEN <<Lit(ws[1])>>
  ELSE <<Lit(ws[1]), Ws0>> \o Phrase(Tail(ws))

\* ---------------------------------------------------------------- matcher

NoCaps == [g \in 1..4 |-> <<1, 0>>]

Min(S) == CHOOSE x \in S : \A y \in S : x <= y
Max(S) == CHOOSE x \in S : \A y \in S : x >= y

\* The recursions below are kept shallow: over a long stretch of lexemes they
\* halve it or go over it as a set.

RunLenSet(s, i, cls, last) ==
  LET stops == {j \in i..last : Cat(s[j]) \notin cls}
  IN IF stops = {} THEN last + 1 - i ELSE Min(stops) - i

RECURSIVE RunUpTo(_, _, _, _, _)
RunUpTo(s, i, cls, last, d) ==
  IF i > last \/ Cat(s[i]) \notin cls THEN 0
  ELSE IF d = 0 THEN RunLenSet(s, i, cls, last)
  ELSE 1 + RunUpTo(s, i + 1, cls, last, d - 1)

\* The lexemes of s from position i on that are in cls, at most max of them.
RunLen(s, i, cls, max) ==
  RunUpTo(s, i, cls, IF max = Inf \/ i + max - 1 > Len(s) THEN Len(s) ELSE i + max - 1, 8)

RECURSIVE CharCount(_, _, _)
\* number of characters of the lexemes s[a..b]
CharCount(s, a, b) ==
  IF a > b THEN 0
  ELSE IF a = b THEN Len(s[a])
  ELSE LET mid == (a + b) \div 2 IN CharCount(s, a, mid) + CharCount(s, mid + 1, b)

\* {lo,hi} counts characters, and a lexeme has at least one.
LoOk(n, s, i, j) == j - i >= n.lo \/ CharCount(s, i, j - 1) >= n.lo
HiOk(n, s, i, j) == n.hi = Inf \/ CharCount(s, i, j - 1) <= n.hi

RECURSIVE Sel(_, _, _)
\* F(lo) \o ... \o F(hi)
Sel(F(_), lo, hi) ==
  IF lo > hi THEN << >>
  ELSE IF lo = hi THEN F(lo)
  ELSE LET mid == (lo + hi) \div 2 IN Sel(F, lo, mid) \o Sel(F, mid + 1, hi)

\* "$" without re.MULTILINE: at the end, or before a final line break.
AtEnd(s, i) == i = Len(s) + 1 \/ (i = Len(s) /\ s[i] = "\n")
\* "$" with re.MULTILINE: also before any line break.
AtEndLine(s, i) == i = Len(s) + 1 \/ (i <= Len(s) /\ s[i] = "\n")

\* A match that starts with one of `first` can start at position i of s.
CanStart(first, s, i) ==
  \/ Anything \in first
  \/ i <= Len(s) /\ s[i] \in first
  \/ AtLineEnd \in first /\ (i > Len(s) \/ s[i] = "\n")

AllPos(s) == 1..(Len(s) + 1)
Empties(n) == [k \in 1..n |-> {}]

\* The positions at which the repetition n can end when it starts at i.
RepEnds(n, s, i) ==
  {j \in i..(i + RunLen(s, i, n.cls, n.hi)) : LoOk(n, s, i, j) /\ HiOk(n, s, i, j)}

\* The engine backtracks: at a repetition or an alternation it takes the first
\* way on (longest first when greedy, shortest first when lazy, alternatives
\* from the left) from which the rest of the pattern matches.  Whether the
\* rest matches depends on the position alone, so the match is found in three
\* passes over the nodes of the pattern: the positions that can be reached
\* before each node (Reach), those of them from which the rest matches
\* (Viable), and the way the engine takes through them (Walk).

RECURSIVE Reach(_, _, _, _, _), ViaSeq(_, _, _, _)

\* The positions after re, from the positions S before it.
Ends(re, s, S) == IF re = << >> THEN S ELSE Reach(re, s, 1, Len(re), S)[Len(re)]

\* The positions after node n, from the positions S before it.
Post(n, s, S) ==
  CASE n.k = "lit" -> {i + 1 : i \in {i \in S : i <= Len(s) /\ s[i] = n.w}}
    [] n.k = "in" -> {i + 1 : i \in {i \in S : i <= Len(s) /\ s[i] \in n.set}}
    [] n.k = "rep" -> UNION {RepEnds(n, s, i) : i \in S}
    [] n.k = "alt" -> UNION {Ends(n.alts[a], s, S) : a \in 1..Len(n.alts)}
    [] n.k \in {"open", "close"} -> S
    [] n.k = "look" ->
         UNION {ViaSeq(n.alts[a], s, {i \in S : CanStart(n.first, s, i)}, AllPos(s))[1] :
                  a \in 1..Len(n.alts)}
    [] n.k = "end" -> {i \in S : AtEnd(s, i)}
    [] n.k = "endline" -> {i \in S : AtEndLine(s, i)}

\* left, the positions after re[..mid], and what follows them up to re[b].
ReachOn(re, s, mid, b, left) ==
  IF left[Len(left)] = {} THEN left \o Empties(b - mid)
  ELSE left \o Reach(re, s, mid + 1, b, left[Len(left)])
\* <<the positions after re[a], ..., the positions after re[b]>>, from the
\* positions S before re[a].
Reach(re, s, a, b, S) ==
  IF a = b THEN <<Post(re[a], s, S)>>
  ELSE ReachOn(re, s, (a + b) \div 2, b, Reach(re, s, a, (a + b) \div 2, S))

\* The positions of S from which node n leads into T.
Pre(n, s, S, T) ==
  CASE n.k = "lit" -> {i \in S : i + 1 \in T /\ s[i] = n.w}
    [] n.k = "in" -> {i \in S : i + 1 \in T /\ s[i] \in n.set}
    [] n.k = "rep" -> {i \in S : RepEnds(n, s, i) \cap T # {}}
    [] n.k = "alt" -> UNION {ViaSeq(n.alts[a], s, S, T)[1] : a \in 1..Len(n.alts)}
    [] n.k \in {"open", "close"} -> S \cap T
    [] n.k \in {"look", "end", "endline"} -> Post(n, s, S \cap T)

RECURSIVE Viable(_, _, _, _, _, _)
ViableOn(re, s, R, a, mid, right) ==
  IF right[1] = {} THEN Empties(mid - a + 1) \o right
  ELSE Viable(re, s, R, a, mid, right[1]) \o right
\* <<the positions before re[a], ..., the positions before re[b]>> from which
\* re[..b] leads into T; R[k] are the positions reached before re[k].
Viable(re, s, R, a, b, T) ==
  IF a = b THEN <<Pre(re[a], s, R[a], T)>>
  ELSE ViableOn(re, s, R, a, (a + b) \div 2, Viable(re, s, R, (a + b) \div 2 + 1, b, T))

\* R[k] being the positions reached before re[k].
ViableIn(re, s, R, T) ==
  IF R[Len(R)] \cap T = {} THEN Empties(Len(R))
  ELSE Viable(re, s, R, 1, Len(re), R[Len(R)] \cap T) \o <<R[Len(R)] \cap T>>
\* V[k]: the positions before re[k], reached from S, from which re[k..] ends in T.
ViaSeq(re, s, S, T) ==
  IF re = << >> THEN <<S \cap T>>
  ELSE ViableIn(re, s, <<S>> \o Reach(re, s, 1, Len(re), S), T)

NoWay == [e |-> 0, caps |-> NoCaps]

RECURSIVE Walk(_, _, _, _, _, _)

\* From the state st after re[..mid], the state after re[..b].
WalkOn(re, s, V, mid, b, st) ==
  IF st.e = 0 THEN NoWay ELSE Walk(re, s, V, mid + 1, b, st)

\* The way through re from st, V being ViaSeq of re.
TakeWay(re, s, V, st) == IF re = << >> THEN st ELSE Walk(re, s, V, 1, Len(re), st)
FirstWay(ways, s, st) ==
  IF ways = {} THEN NoWay
  ELSE LET w == CHOOSE w \in ways : \A o \in ways : w.at <= o.at
       IN TakeWay(w.re, s, w.V, st)
PickEnd(ends, greedy, st) ==
  IF ends = {} THEN NoWay ELSE [st EXCEPT !.e = IF greedy THEN Max(ends) ELSE Min(ends)]

\* The state after node n, which the engine leaves at a position of T.
Step(n, s, st, T) ==
  CASE n.k \in {"lit", "in", "look", "end", "endline"} ->
         PickEnd(Post(n, s, {st.e}) \cap T, TRUE, st)
    [] n.k = "rep" -> PickEnd(RepEnds(n, s, st.e) \cap T, n.greedy, st)
    [] n.k = "alt" ->
         FirstWay({w \in {[at |-> a, re |-> n.alts[a],
                           V |-> ViaSeq(n.alts[a], s, {st.e}, T)] : a \in 1..Len(n.alts)} :
                     w.V[1] # {}}, s, st)
    [] n.k = "open" -> [st EXCEPT !.caps[n.g] = <<st.e, @[2]>>]
    [] n.k = "close" -> [st EXCEPT !.caps[n.g] = <<@[1], st.e - 1>>]

\* The state after re[a..b] from st; V[k] are the viable positions before re[k].
Walk(re, s, V, a, b, st) ==
  IF a = b THEN Step(re[a], s, st, V[a + 1])
  ELSE WalkOn(re, s, V, (a + b) \div 2, b, Walk(re, s, V, a, (a + b) \div 2, st))

NoMatch == [ok |-> FALSE, caps |-> NoCaps, e |-> 0, at |-> 0]

\* The match that starts at j and ends in state st.
MatchAt(j, st) == [ok |-> st.e # 0, caps |-> st.caps, e |-> st.e, at |-> j]

\* The leftmost match among the viable starts V[1].
Leftmost(re, s, V) ==
  IF V[1] = {} THEN NoMatch
  ELSE MatchAt(Min(V[1]), TakeWay(re, s, V, [e |-> Min(V[1]), caps |-> NoCaps]))

Starts(first, s, i) == {j \in i..(Len(s) + 1) : CanStart(first, s, j)}

\* The leftmost match of re in s that starts at or after position i; .at is
\* its start, .e the position after its end.
SearchFrom(re, s, i) ==
  IF i > Len(s) + 1 THEN NoMatch
  ELSE Leftmost(re, s, ViaSeq(re, s, Starts(FirstOf(re), s, i), AllPos(s)))

\* The alternatives of alts that match in s at or after position i, each
\* with its viable positions.
Matching(alts, s, i) ==
  {w \in {[at |-> a, V |-> ViaSeq(alts[a], s, Starts(FirstOf(alts[a]), s, i), AllPos(s))] :
            a \in 1..Len(alts)} : w.V[1] # {}}
Earlier(w, o) ==
  Min(w.V[1]) < Min(o.V[1]) \/ (Min(w.V[1]) = Min(o.V[1]) /\ w.at <= o.at)
LeftmostOf(alts, s, w) == Leftmost(alts[w.at], s, w.V)
LeftmostIn(alts, s, ws) ==
  IF ws = {} THEN NoMatch
  ELSE LeftmostOf(alts, s, CHOOSE w \in ws : \A o \in ws : Earlier(w, o))
\* The leftmost match of the pattern "alts[1]|alts[2]|..." in s at or after
\* position i: of the matches that start there, that of the first alternative.
SearchAny(alts, s, i) ==
  IF i > Len(s) + 1 THEN NoMatch ELSE LeftmostIn(alts, s, Matching(alts, s, i))

\* pattern.match(s, i): the match of re that starts at position i of s.
MatchHere(re, s, i) == Leftmost(re, s, ViaSeq(re, s, {i}, AllPos(s)))

\* s.lower(), lexeme by lexeme
FoldSeq(s) == SubSeq([i \in 1..Len(s) |-> Fold(s[i])], 1, Len(s))

\* re.search under re.IGNORECASE
Search(re, s) == SearchFrom(re, FoldSeq(s), 1)

\* m.group(g)
Group(s, m, g) == SubSeq(s, m.caps[g][1], m.caps[g][2])

RECURSIVE LStrip(_, _), RStrip(_, _)
LStrip(s, cs) == IF Len(s) > 0 /\ s[1] \in cs THEN LStrip(Tail(s), cs) ELSE s
RStrip(s, cs) ==
  IF Len(s) > 0 /\ s[Len(s)] \in cs THEN RStrip(SubSeq(s, 1, Len(s) - 1), cs) ELSE s

\* str.strip()
Strip(s) == RStrip(LStrip(s, WS), WS)

\* str.strip(' :\t')
StripMarks(s) == RStrip(LStrip(s, {" ", ":", "\t"}), {" ", ":", "\t"})

\* F(v) with v evaluated before the call, as Python evaluates an argument.
Bind(v, F(_)) == CHOOSE r \in {F(x) : x \in {v}} : TRUE

\* Python truthiness of a str, and "a or b".
Or(a, b) == IF a # << >> THEN a ELSE b

\* index of the first "\n" of s at or after i, 0 if none
FirstNL(s, i) ==
  LET nl == {j \in i..Len(s) : s[j] = "\n"} IN IF nl = {} THEN 0 ELSE Min(nl)

RECURSIVE SplitLines(_)
\* str.split('\n')
SplitLines(s) ==
  LET i == FirstNL(s, 1)
  IN IF i = 0 THEN <<s>>
     ELSE <<SubSeq(s, 1, i - 1)>> \o SplitLines(SubSeq(s, i + 1, Len(s)))

RECURSIVE JoinLines(_)
\* "\n".join(lines)
JoinLines(ls) ==
  IF Len(ls) = 0 THEN << >>
  ELSE IF Len(ls) = 1 THEN ls[1]
  ELSE ls[1] \o <<"\n">> \o JoinLines(Tail(ls))

\* --------------------------------------------------- extract_invoice_data

\* find(pattern, source): group 1 of the leftmost match, stripped; "" if none.
Capture(s, m) == IF m.ok THEN Strip(Group(s, m, 1)) ELSE << >>
find(pattern, s) == Capture(s, Search(pattern, s))

\* re.sub(r'\n\s*', '\n', block): of a run of white space, what follows its
\* first line break goes.
CollapseAfterNewline(s) ==
  Sel(LAMBDA i : IF /\ s[i] \in WS
                    /\ \E j \in 1..(i - 1) : s[j] = "\n" /\ \A k \in j..i : s[k] \in WS
                 THEN << >> ELSE <<s[i]>>, 1, Len(s))

\* The pattern extract_block builds: label_regex is spliced in unparenthesised,
\* so when it is "A|B" the separator, the capture and the lookahead belong to
\* its last alternative only and the others match the bare label.
BlockPattern(labels, next) ==
  LET tail == <<Ws0, Sep, Ws0, Open(1), LazyAny, Close(1), Look(next \o <<<<End>>>>)>>
      n == Len(labels)
  IN [a \in 1..n |-> IF a = n THEN labels[a] \o tail ELSE labels[a]]

extract_block(labels, next, s) ==
  CollapseAfterNewline(Capture(s, SearchAny(BlockPattern(labels, next), FoldSeq(s), 1)))

OptChar(c) == Rep({c}, 0, 1, TRUE)
LabelInvoiceNo == <<Lit("invoice"), Ws0, Lit("no"), OptDot>>
LabelIECode ==
  <<Alt(<< <<Lit("ie")>>, <<Lit("i"), OptDot, Lit("e"), OptDot>> >>), Ws0, Lit("code")>>
LabelPreCarriage == <<Lit("pre"), OptChar("-"), Lit("carriage")>>
LabelVessel == <<Lit("vessel"), Ws0, OptChar("/"), Ws0, Lit("voyage")>>

\* label_alts: the label starters of the lookahead boundary.
label_alts ==
  << LabelInvoiceNo,
     LabelIECode,
     <<Lit("buyer"), OptChar("'"), Lit("s"), Ws0, Lit("order"), Ws0, Lit("no"), Lit(".")>>,
     <<Lit("consignee")>>,
     Phrase(<<"notify", "party">>),
     <<Lit("country")>>,
     LabelPreCarriage,
     LabelVessel,
     Phrase(<<"place", "of", "receipt">>),
     Phrase(<<"port", "of", "loading">>),
     Phrase(<<"port", "of", "discharge">>),
     Phrase(<<"final", "destination">>),
     Phrase(<<"terms", "of", "payment">>),
     Phrase(<<"amount", "chargeable">>),
     <<Lit("total")>>,
     Phrase(<<"bin", "no">>),
     <<Lit("drawback")>>,
     <<Lit("benefit")>>,
     <<Lit("shipment")>> >>

\* Label, optional separator, captured class run: LABEL\s*[:\-]?\s*([cls]+)
Labelled(label, cls) == label \o <<Ws0, Sep, Ws0, Open(1), Plus(cls), Close(1)>>

PatInvoiceNo == Labelled(LabelInvoiceNo, AlnumDashSlash)
PatIECode ==
  Labelled(LabelIECode \o <<Ws0, Lit("no"), OptDot>>, Alnum)
PatPoNo ==
  Labelled(<<Lit("buyer"), Rep(AnyCh, 0, 1, TRUE), Lit("s"), Ws0, Lit("order"), Ws0,
             Lit("no"), OptDot>>, AlnumDashSlash)
PatTerms ==
  Phrase(<<"terms", "of", "payment">>)
    \o <<Ws0, Sep, Ws0, Open(1), Rep(AnyCh, 1, Inf, FALSE), Close(1),
         Alt(<< <<Lit("country")>>, <<Lit("final")>>, <<Lit("port")>>, <<End>> >>)>>
PatDrawback ==
  Labelled(<<Lit("drawback"), Ws0, Lit("sr"), OptDot, Ws0, Lit("no"), OptDot>>,
           AlnumDashSlash)
PatBenefit ==
  Labelled(<<Alt(<< <<Lit("benefits")>>, <<Lit("benefit")>> >>), Ws0, Lit("under"), Ws0,
             Alt(<< <<Lit("meis")>>, <<Lit("mees")>> >>), Ws0, Lit("scheme")>>, AlphaSp)
PatTotal ==
  <<Alt(<< Phrase(<<"amount", "chargeable">>), <<Lit("total")>> >>), Ws0, Sep, Ws0,
    Alt(<< <<Lit("usd"), Ws0>>, << >> >>),
    Open(1), Plus(DigitComma),
    Alt(<< <<Lit("."), Rep(Digit, 2, 2, TRUE)>>, << >> >>), Close(1)>>
PatUSD == <<Lit("usd")>>

\* "Exporter" is spelled Ex-port-er: the terms pattern (line 80) stops at the
\* "port" inside it.
ExporterLabels == << <<Lit("ex"), Lit("port"), Lit("er")>>, <<Lit("shipper")>> >>
PatExporterFallback ==
  <<Alt(ExporterLabels), Ws0, Lit(":"), Ws0, Open(1), Rep(AnyCh, 10, 800, FALSE), Close(1),
    Look(<< <<Lit("consignee")>>, Phrase(<<"notify", "party">>), LabelInvoiceNo,
            <<Lit("country")>>, LabelPreCarriage, <<End>> >>)>>
PatConsigneeFallback ==
  <<Lit("consignee"), Ws0, Lit(":"), Ws0, Open(1), Rep(AnyCh, 10, 800, FALSE), Close(1),
    Look(<< Phrase(<<"notify", "party">>), <<Lit("country")>>, LabelPreCarriage,
            LabelInvoiceNo, <<End>> >>)>>
PatConsigneeFallback2 ==
  <<Lit("consignee"), Ws0, Sep, Ws0, Open(1), Rep(AnyCh, 10, 500, FALSE), Close(1),
    Look(<< <<Lit("notify")>>, <<Lit("country")>>, <<Lit("port")>>, <<Lit("vessel")>>,
            <<End>> >>)>>

\* re.sub(r'(?mi)^.*PAT.*$\n?', '', s): drop every line PAT occurs in.
RemoveLines(s, pat) ==
  IF s = << >> THEN << >>
  ELSE JoinLines(SelectSeq(SplitLines(s), LAMBDA l : ~Search(pat, l).ok))

PatIECLine ==
  <<Alt(<< <<Lit("iec")>>,
           <<Lit("i"), OptDot, Lit("e"), OptDot, Lit("c"), OptDot>> >>)>>
PatPoLine ==
  <<Lit("buyer"), OptChar("'"), Lit("s"), Ws0, Lit("order"), Ws0, Lit("no"), OptDot>>
PatLeadLabel == <<Alt(ExporterLabels), Ws0, OptChar(":"), Ws0>>

\* re.sub(r'(?mi)^(?:Exporter|Shipper)\s*:?\s*', '', s)
RemoveLeadLabels(s) ==
  LET fs == FoldSeq(s)
      bol == {i \in 1..Len(s) : i = 1 \/ s[i - 1] = "\n"}
      ms == {m \in {[at |-> i, r |-> MatchHere(PatLeadLabel, fs, i)] : i \in bol} :
               m.r.ok}
  IN Sel(LAMBDA k : IF \E m \in ms : m.at <= k /\ k < m.r.e THEN << >> ELSE <<s[k]>>,
         1, Len(s))

\* re.sub(r'\n{3,}', '\n\n', s)
CollapseBlankLines(s) ==
  Sel(LAMBDA i : IF i >= 3 /\ s[i] = "\n" /\ s[i - 1] = "\n" /\ s[i - 2] = "\n"
                 THEN << >> ELSE <<s[i]>>, 1, Len(s))

\* Lines 105-115: the clean-up of a non-empty exporter block.
CleanExporter(block) ==
  LET b1 == RemoveLines(block, PatIECLine)
      b2 == RemoveLines(b1, LabelIECode)
      b3 == RemoveLines(b2, LabelInvoiceNo)
      b4 == RemoveLines(b3, PatPoLine)
      b5 == RemoveLeadLabels(b4)
  IN Strip(CollapseBlankLines(b5))

\* Lines 88-95 and 105-115.
CleanIfAny(block) == IF block # << >> THEN CleanExporter(block) ELSE block
ExporterBlock(raw) ==
  CleanIfAny(Or(extract_block(ExporterLabels, label_alts, raw),
                find(PatExporterFallback, raw)))

\* Lines 89 and 96-102: the consignee block before mirroring.
ConsigneeBlock0(raw) ==
  Or(Or(extract_block(<< <<Lit("consignee")>> >>, label_alts, raw),
        find(PatConsigneeFallback, raw)),
     find(PatConsigneeFallback2, raw))

\* Line 90: the notify party block before mirroring.
NotifyBlock0(raw) == extract_block(<<Phrase(<<"notify", "party">>)>>, label_alts, raw)

PatSameAsConsignee == <<Lit("same"), Lit(" "), Lit("as"), Lit(" "), Lit("consignee")>>

\* Lines 120-122: notify party, mirrored from the consignee.
NotifyBlock(notify_block, consignee_block) ==
  IF notify_block = << >> \/ Search(PatSameAsConsignee, notify_block).ok
  THEN consignee_block ELSE notify_block

\* Lines 124-126: consignee, mirrored from the notify party when empty.
ConsigneeBlock(consignee_block, notify_block) ==
  IF consignee_block = << >> \/ Strip(consignee_block) = << >>
  THEN notify_block ELSE consignee_block

\* ----------------------------------------------------- shipment details

PatPreCarriageBy ==
  <<Alt(<< <<Lit("pre")>>, <<Lit("pre"), Lit("-")>>, << >> >>), Ws0, Lit("carriage"), Ws0,
    Lit("by")>> \o <<Ws0, Sep, Ws0, Open(1), Plus(AlphaSpDash), Close(1)>>
PatPreCarriage == Labelled(LabelPreCarriage, AlphaSpDash)
PatVessel == Labelled(LabelVessel, VesselCls)

PlaceOfReceiptLabels ==
  << Phrase(<<"place", "of", "receipt">>), Phrase(<<"place", "of", "acceptance">>) >>
PortOfLoadingLabels ==
  << Phrase(<<"port", "of", "loading">>), Phrase(<<"port", "of", "shipment">>) >>
PortOfDischargeLabels == << Phrase(<<"port", "of", "discharge">>) >>
PlaceOfDeliveryLabels ==
  << Phrase(<<"place", "of", "delivery">>), Phrase(<<"final", "destination">>) >>

PatKnownPol ==
  <<Open(1),
    Alt(<< Phrase(<<"nhava", "sheva">>), Phrase(<<"nava", "sheva">>),
           Phrase(<<"nahava", "seva">>), <<Lit("jnpt")>> >>),
    Close(1)>>
PatKnownPod == <<Open(1), Lit("singapore"), Close(1)>>

\* LABEL\s*[:\-]?\s*([^\n]+)
ToEol(label) == Labelled(label, NotNL)

\* Lines 137-143.
pol_direct(raw) ==
  Or(find(PatKnownPol, raw),
  Or(find(ToEol(Phrase(<<"port", "of", "loading">>)), raw),
  Or(find(ToEol(Phrase(<<"port", "of", "shipment">>)), raw),
  Or(find(ToEol(Phrase(<<"loading", "port">>)), raw),
     find(ToEol(<<Lit("pol")>>), raw)))))

\* Lines 144-150.
pod_direct(raw) ==
  Or(find(PatKnownPod, raw),
  Or(find(ToEol(Phrase(<<"port", "of", "discharge">>)), raw),
  Or(find(ToEol(Phrase(<<"port", "of", "delivery">>)), raw),
  Or(find(ToEol(Phrase(<<"discharge", "port">>)), raw),
     find(ToEol(<<Lit("pod")>>), raw)))))

RECURSIVE FirstNonEmpty(_)
FirstNonEmpty(ls) ==
  IF Len(ls) = 0 THEN << >>
  ELSE IF StripMarks(ls[1]) # << >> THEN StripMarks(ls[1])
  ELSE FirstNonEmpty(Tail(ls))

\* Lines 151-158.
first_line(val) == IF val = << >> THEN << >> ELSE FirstNonEmpty(SplitLines(val))

PatPlaceReceiptLine ==
  ToEol(<<Alt(<< <<Lit("place")>>, <<Lit("place"), Ws0, Lit("of")>> >>), Ws0,
          Alt(<< <<Lit("of")>>, <<Lit("o")>> >>), Ws0, Lit("receipt")>>)

\* Line 159.
place_receipt(raw) ==
  Or(first_line(extract_block(PlaceOfReceiptLabels, label_alts, raw)),
  Or(find(PatPlaceReceiptLine, raw),
     find(ToEol(Phrase(<<"place", "of", "acceptance">>)), raw)))

\* Line 160.
port_loading(raw) ==
  Or(pol_direct(raw), first_line(extract_block(PortOfLoadingLabels, label_alts, raw)))

\* Line 161.
port_discharge(raw) ==
  Or(pod_direct(raw), first_line(extract_block(PortOfDischargeLabels, label_alts, raw)))

\* Line 162.
final_destination(raw) ==
  Or(first_line(extract_block(PlaceOfDeliveryLabels, label_alts, raw)),
  Or(find(ToEol(Phrase(<<"final", "destination">>)), raw),
     find(ToEol(Phrase(<<"place", "of", "delivery">>)), raw)))

PatCountryOrigin == Labelled(Phrase(<<"country", "of", "origin">>), AlphaSpComma)
PatCountryDestination ==
  Labelled(Phrase(<<"country", "of", "final", "destination">>), AlphaSpComma)

ContSealLabel ==
  <<Lit("container"), Ws0, Lit("&"), Ws0, Lit("seal"), Ws0>>
\* Line 166.
PatContSeal ==
  ContSealLabel
    \o <<Alt(<< <<Lit("nos")>>, <<Lit("no")>> >>), OptDot, Ws0, Sep, Ws0,
         Open(1), Plus(AlnumDashSlash), Close(1), Ws0,
         Rep({"/", "-", "|", " "}, 1, 1, TRUE), Ws0,
         Open(2), Plus(Alnum), Close(2)>>

\* Lines 166-169: the container / seal pair read from the text, if any.
ContSealOf(raw, m) ==
  [found |-> m.ok,
   container_no |-> IF m.ok THEN Strip(Group(raw, m, 1)) ELSE << >>,
   seal_no |-> IF m.ok THEN Strip(Group(raw, m, 2)) ELSE << >>]
cont_seal(raw) == ContSealOf(raw, Search(PatContSeal, raw))

\* ------------------------------------------------------------ shipping marks

OptQuote == Rep({"'", "\""}, 0, 1, TRUE)
FclHead == <<Plus(Digit), Ws0, Lit("x"), Ws0, Lit("2"), Lit("0"), OptQuote, Ws0, Lit("fcl")>>

\* Line 179.
PatSrMarks ==
  <<Open(1)>> \o FclHead \o <<LazyAny>> \o ContSealLabel
    \o <<Lit("nos"), OptDot, Ws0, Lit(":"), Ws0, LazyAny, Close(1),
         Alt(<< <<Lit("indian")>>, <<Lit("hs"), Ws0, Lit("code")>>, <<Lit("description")>>,
                <<Lit("no"), Lit(".")>>, <<End>> >>)>>
\* Line 183.
PatSimpleFcl == <<Open(1)>> \o FclHead \o <<Rep(NotNL, 0, Inf, FALSE), Close(1)>>
\* Lines 197-198.
PatFclLine == <<Open(1)>> \o FclHead \o <<Close(1)>>

\* Words of the modelled texts in which an allowed pattern occurs: the
\* patterns of line 192 have no closing word boundary.
AllowedWords ==
  { "fcl", "container", "containers", "seal", "seals", "marks", "package", "packages",
    "pkg", "pkgs", "carton", "cartons", "no", "nos", "notify", "not" }

\* Lines 193-194.
is_allowed(line) == \E i \in 1..Len(line) : Fold(line[i]) \in AllowedWords

\* re.split(r'[\r\n]+', s), each piece stripped, the empty ones dropped (line 191)
StripEach(ls) == [i \in 1..Len(ls) |-> Strip(ls[i])]
StrippedLines(s) == SelectSeq(StripEach(SplitLines(s)), LAMBDA l : l # << >>)

\* Lines 196-203: what one line of the block leaves.
MarkOf(ln, m) ==
  IF m.ok THEN <<Group(ln, m, 1)>> ELSE IF is_allowed(ln) THEN <<ln>> ELSE << >>

\* Lines 195-203.
FilterMarks(ls) == Sel(LAMBDA i : MarkOf(ls[i], Search(PatFclLine, ls[i])), 1, Len(ls))

ContSealText(c, sl) ==
  <<"Container", " ", "&", " ", "Seal", " ", "nos", ".", ":", " ">> \o c
    \o <<" ", "/", " ">> \o sl

\* Lines 185-187: without a block, the container and seal numbers make it.
MarksOrContSeal(block, cs) ==
  IF block = << >> /\ cs.found /\ cs.container_no # << >> /\ cs.seal_no # << >>
  THEN ContSealText(cs.container_no, cs.seal_no) ELSE block

\* Lines 189-204.
FilteredMarks(block) ==
  IF block # << >> THEN Strip(JoinLines(FilterMarks(StrippedLines(block)))) ELSE block

\* Lines 179-204.
sr_marks_block(raw) ==
  FilteredMarks(MarksOrContSeal(Or(find(PatSrMarks, raw), find(PatSimpleFcl, raw)),
                                cont_seal(raw)))

\* --------------------------------------------------------------- goods

HsCodeLabel == <<Lit("hs"), Ws0, Lit("code")>>
Colon == <<Ws0, Lit(":"), Ws0>>

\* Line 173.
PatGoods ==
  HsCodeLabel \o Colon \o <<Open(1), Plus(DigitDot), Close(1), LazyAny, Lit("quantity")>>
    \o Colon \o <<Open(2), Plus(DigitComma), Ws0, Lit("pcs"), Close(2), LazyAny,
                  Lit("weight")>>
    \o Colon \o <<Open(3), Plus(DigitCommaDot), Ws0,
                  Alt(<< <<Lit("kgs")>>, <<Lit("kg")>> >>), Close(3), LazyAny,
                  Lit("packing")>>
    \o Colon \o <<Open(4), Plus(DigitComma), Ws0,
                  Alt(<< <<Lit("cartons")>>, <<Lit("carton")>> >>), Close(4)>>

RECURSIVE FindAllFrom(_, _, _)
\* The match m and the matches after it.
AndAfter(re, s, m) ==
  IF ~m.ok THEN << >>
  ELSE <<m>> \o FindAllFrom(re, s, IF m.e > m.at THEN m.e ELSE m.e + 1)
\* re.findall: the successive non-overlapping matches
FindAllFrom(re, s, i) == AndAfter(re, s, SearchFrom(re, s, i))

goods_matches(text) == FindAllFrom(PatGoods, FoldSeq(text), 1)

NotFound == <<"NOT", " ", "FOUND">>
Mts == Alt(<< <<Lit("mts")>>, <<Lit("mt")>> >>)
MtsOrKgs == Alt(<< <<Lit("mts")>>, <<Lit("mt")>>, <<Lit("kgs")>>, <<Lit("kg")>> >>)
NumAfter(label) == label \o <<Ws0, Open(1), Plus(DigitCommaDot), Close(1)>>
ParenUSD == <<Lit("("), Lit("usd"), Lit(")")>>
TotalNetLabel == Phrase(<<"total", "net", "weight">>)
TotalGrossLabel == Phrase(<<"total", "gross", "weight">>)

PatUnitsMt ==
  NumAfter(<<Lit("no"), Lit("."), Ws0, Lit("of"), Ws0, Lit("units"), Ws0, Lit("("),
             Lit("in"), Ws0, Lit("metric"), Ws0, Lit("tons"), Lit(")")>>)
PatNetMts == Labelled(TotalNetLabel, DigitCommaDot) \o <<Ws0, Mts>>
PatRatePerUnit == NumAfter(Phrase(<<"rate", "per", "unit">>) \o <<Ws0>> \o ParenUSD)
PatAmountUsd == NumAfter(<<Lit("amount"), Ws0>> \o ParenUSD)
PatTotalNet == Labelled(TotalNetLabel, DigitCommaDot) \o <<Ws0, MtsOrKgs>>
PatTotalGross == Labelled(TotalGrossLabel, DigitCommaDot) \o <<Ws0, MtsOrKgs>>
PatMeasurement ==
  <<Lit("measurement"), Ws0, Sep, Ws0, Open(1), Plus(DigitCommaDot), Ws0, Lit("cbm"),
    Close(1)>>
PatTotalNum == <<Lit("total"), Ws0, Sep, Ws0, Open(1), Plus(DigitCommaDot), Close(1)>>

\* Lines 207-210.
IfNotFound(v, other) == IF v = NotFound THEN other ELSE v
units_mt(raw) == IfNotFound(find(PatUnitsMt, raw), find(PatNetMts, raw))
\* Lines 213 and 217-218.
amount_usd(raw) == IfNotFound(find(PatAmountUsd, raw), find(PatTotalNum, raw))

\* re.sub(r'[ \t]{2,}', ' ', s)
CollapseBlanks(s) ==
  Sel(LAMBDA i : IF s[i] \notin Blank THEN <<s[i]>>
                 ELSE IF i > 1 /\ s[i - 1] \in Blank THEN << >>
                 ELSE IF i < Len(s) /\ s[i + 1] \in Blank THEN <<" ">>
                 ELSE <<s[i]>>, 1, Len(s))

\* s[:n], cut at a lexeme boundary
TakeChars(s, n) ==
  IF CharCount(s, 1, Len(s)) <= n THEN s
  ELSE SubSeq(s, 1, Max({k \in 0..Len(s) : CharCount(s, 1, k) <= n}))

NetTail(x) == <<"TOTAL", " ", "NET", " ", "WEIGHT", ":", " ">> \o x \o <<" ", "MTS">>
GrossTail(x) == <<"TOTAL", " ", "GROSS", " ", "WEIGHT", ":", " ">> \o x \o <<" ", "MTS">>

\* Lines 240-246 and 297-303: the totals appended to a description.
WithTotals(desc, net, gross) ==
  IF net # << >> \/ gross # << >>
  THEN Strip(desc \o <<"\n">>
         \o JoinLines((IF net # << >> THEN <<NetTail(net)>> ELSE << >>)
                      \o (IF gross # << >> THEN <<GrossTail(gross)>> ELSE << >>)))
  ELSE desc

\* Lines 248-249 and 306-307.
WithHsCode(hs, desc) ==
  IF hs # << >> THEN Strip(<<"HS", " ", "CODE", ":", " ">> \o hs \o <<"\n">> \o desc)
  ELSE desc

\* Lines 251-257 and 309-315.
wm_lines(net, gross, cbm) ==
  (IF net # << >> THEN <<<<"NET", ":", " ">> \o net \o <<" ", "MTS">>>> ELSE << >>)
    \o (IF gross # << >> THEN <<<<"GROSS", ":", " ">> \o gross \o <<" ", "MTS">>>> ELSE << >>)
    \o (IF cbm # << >> /\ cbm # NotFound
        THEN <<<<"MEASUREMENT", ":", " ">> \o cbm>> ELSE << >>)

Blanked(v) == IF v # NotFound THEN v ELSE << >>

\* Line 228: the pattern is an f-string, so its "{8,240}" is formatted as the
\* tuple (8, 240): one character of the class, then the group "8, 240".
PatPreHsContext ==
  <<Open(1), Rep(PreHsCls, 1, 1, TRUE), Open(2), Lit("8"), Lit(","), Lit(" "), Lit("2"),
    Lit("4"), Lit("0"), Close(2), Close(1)>>
PatPreHsAnchor == <<Ws0, Rep(Newline, 1, Inf, TRUE), Ws0>> \o HsCodeLabel \o Colon

\* m.group(g) if m else other
GroupOr(s, m, g, other) == IF m.ok THEN Group(s, m, g) ELSE other

\* Lines 221-222.
PatDescOf(hs) ==
  HsCodeLabel \o Colon \o Words(hs)
    \o <<Ws0, Open(1), LazyAny, Close(1), Ws0, Lit("quantity")>>

\* Lines 231-237 and 292-293.
CombinedDesc(combined) ==
  IF combined # << >> THEN Strip(CollapseBlanks(TakeChars(combined, 2200))) ELSE << >>

\* Lines 251-259: without totals, the weight of the line.
WmOrWeight(wm, weight) ==
  IF wm = << >> /\ weight # << >> THEN <<<<"WEIGHT", ":", " ">> \o weight>> ELSE wm

\* Lines 261-273 and 317-329: a line of the goods list.
Line(hs, desc, qty, weight, pack, unit, net, gross, cbm, rate, amount, units, marks) ==
  [hs_code |-> hs,
   description |-> WithHsCode(hs, WithTotals(desc, net, gross)),
   quantity |-> qty,
   weight |-> weight,
   packing |-> pack,
   unit |-> unit,
   rate |-> rate,
   amount |-> amount,
   units_mt |-> units,
   weight_measurements |-> JoinLines(WmOrWeight(wm_lines(net, gross, cbm), weight)),
   sr_marks |-> marks]

\* Lines 179-218: what the lines of the goods list share.
Totals(raw) ==
  [sr_marks |-> sr_marks_block(raw),
   units_mt |-> units_mt(raw),
   rate_per_unit |-> find(PatRatePerUnit, raw),
   amount_usd |-> amount_usd(raw),
   total_net_wt |-> find(PatTotalNet, raw),
   total_gross_wt |-> find(PatTotalGross, raw),
   measurement_cbm |-> find(PatMeasurement, raw)]

\* Lines 219-274: the goods line of the match (hs, qty, weight, pack) of the
\* repeating pattern.
GoodsLineOf(combined, hs, qty, weight, pack, t) ==
  Line(hs, CombinedDesc(combined), qty, weight, pack, <<"PCS">>,
       t.total_net_wt, t.total_gross_wt, t.measurement_cbm,
       Blanked(t.rate_per_unit), Blanked(t.amount_usd), Blanked(t.units_mt), t.sr_marks)
GoodsLine(raw, hs, qty, weight, pack, t) ==
  Bind(Strip(find(PatPreHsContext \o PatPreHsAnchor \o Words(hs), raw)
             \o <<"\n">>
             \o GroupOr(raw, Search(PatDescOf(hs), raw), 1, << >>)),
       LAMBDA combined : GoodsLineOf(combined, hs, qty, weight, pack, t))

PatHsOnly ==
  HsCodeLabel \o <<Ws0, Sep, Ws0, Open(1), Rep(DigitDot, 6, 10, TRUE), Close(1)>>
PatDescAfterHs ==
  HsCodeLabel
    \o <<Ws0, Sep, Ws0, Rep(DigitDot, 6, 10, TRUE), Ws0, Open(1),
         Rep(AnyCh, 0, 3000, FALSE), Close(1),
         Alt(<< TotalNetLabel, TotalGrossLabel, Phrase(<<"amount", "chargeable">>),
                Phrase(<<"bin", "no">>), <<Lit("declaration")>>, Phrase(<<"rate", "per">>),
                <<Lit("no"), OptDot, Ws0, Lit("of")>>, <<End>> >>)>>
PatPreHs ==
  <<Open(1), Rep(PreHsCls, 8, 240, TRUE), Close(1), Ws0, Lit("\n"), Ws0>> \o HsCodeLabel
PatAnyMts == <<Open(1), Plus(DigitCommaDot), Close(1), Ws0, Mts>>
PatTotalColonNum ==
  <<Lit("total"), Ws0, OptChar(":"), Ws0, Open(1), Plus(DigitCommaDot), Close(1)>>
PatHsLoose ==
  HsCodeLabel \o <<Ws0, OptChar(":"), Ws0, Open(1), Plus(DigitDot), Close(1)>>

\* Lines 278-329: the single line synthesised when the pattern matched nothing.
FallbackLineOf(raw, t, combined) ==
  Line(GroupOr(raw, Search(PatHsOnly, raw), 1, find(PatHsLoose, raw)),
       CollapseBlanks(combined),
       << >>, << >>, << >>, << >>,
       t.total_net_wt, t.total_gross_wt, t.measurement_cbm,
       Blanked(t.rate_per_unit),
       find(PatTotalColonNum, raw),
       GroupOr(raw, Search(PatNetMts, raw), 1, find(PatAnyMts, raw)),
       t.sr_marks)
FallbackLine(raw, t) ==
  Bind(Strip(GroupOr(raw, Search(PatPreHs, raw), 1, << >>)
             \o <<"\n">>
             \o GroupOr(raw, Search(PatDescAfterHs, raw), 1, << >>)),
       LAMBDA combined : FallbackLineOf(raw, t, combined))

\* The goods list without the line lines 278-329 make when nothing matched.
MatchedGoods(raw, text, ms, t) ==
  Sel(LAMBDA i : <<GoodsLine(raw, Group(text, ms[i], 1), Group(text, ms[i], 2),
                             Group(text, ms[i], 3), Group(text, ms[i], 4), t)>>,
      1, Len(ms))
\* Lines 219-329: the goods list of the matches ms.
GoodsOf(raw, text, ms, t) ==
  IF Len(ms) > 0
  THEN Sel(LAMBDA i : <<GoodsLine(raw, Group(text, ms[i], 1), Group(text, ms[i], 2),
                                  Group(text, ms[i], 3), Group(text, ms[i], 4), t)>>,
           1, Len(ms))
  ELSE <<FallbackLine(raw, t)>>

\* Lines 172-329: the goods list.
Goods(raw, text) ==
  Bind(Totals(raw), LAMBDA t : GoodsOf(raw, text, goods_matches(text), t))

\* ------------------------------------------------------ random defaults

\* The process-wide generator of the random module: a state x, which a draw
\* advances to (x * 75 + 74) % 32749 and then reads.

RECURSIVE Pow75(_)
Square(y) == (y * y) % 32749
\* 75^k modulo 32749
Pow75(k) ==
  IF k = 0 THEN 1
  ELSE IF k % 2 = 1 THEN (75 * Pow75(k - 1)) % 32749
  ELSE Square(Pow75(k \div 2))

\* The state k draws after state x: a draw multiplies x + 1 by 75.
RngAt(x, k) == (Pow75(k) * (x + 1) + 32748) % 32749

\* random.choice(pool) at the k-th draw
Choice(pool, x, k) == pool[1 + (RngAt(x, k) % Len(pool))]
\* random.randint(lo, hi) at the k-th draw
RandInt(lo, hi, x, k) == lo + (RngAt(x, k) % (hi - lo + 1))
\* random.choices(pool, k = n), draws first..first + n - 1, joined
Choices(pool, n, x, first) == [j \in 1..n |-> Choice(pool, x, first + j - 1)]

ascii_uppercase ==
  <<"A", "B", "C", "D", "E", "F", "G", "H", "I", "J", "K", "L", "M", "N", "O", "P", "Q",
    "R", "S", "T", "U", "V", "W", "X", "Y", "Z">>
digits == <<"0", "1", "2", "3", "4", "5", "6", "7", "8", "9">>

RECURSIVE Decimal(_)
\* str(n) of a natural number
Decimal(n) == (IF n >= 10 THEN Decimal(n \div 10) ELSE << >>) \o <<digits[1 + (n % 10)]>>

\* Line 332.
vessels ==
  << <<"MSC", " ", "LORETO">>, <<"CMA", " ", "CGM", " ", "NEVADA">>,
     <<"APL", " ", "TOKYO">>, <<"MAERSK", " ", "OHIO">>, <<"ONE", " ", "HAMBURG">>,
     <<"WAN", " ", "HAI", " ", "5", "2", "8">>, <<"EVER", " ", "GIVEN">> >>

\* Lines 341-347.
agents ==
  << <<"SEA", " ", "LINE", " ", "LOGISTICS", " ", "PTE", ".", " ", "LTD", ".", ",", " ",
       "Singapore">>,
     <<"GULF", " ", "STAR", " ", "SHIPPING", " ", "LLC", ",", " ", "Dubai">>,
     <<"PACIFIC", " ", "FREIGHT", " ", "SERVICES", ",", " ", "Singapore">>,
     <<"BLUE", " ", "OCEAN", " ", "LINES", ",", " ", "Mumbai">>,
     <<"NORTH", " ", "HARBOUR", " ", "AGENCIES", ",", " ", "Singapore">> >>

\* Line 334: draws 1 and 2.
voyage_code(x) ==
  <<"V", ".">> \o Decimal(RandInt(100, 999, x, 1))
    \o <<Choice(<<"A", "B", "C", "D", "E">>, x, 2)>>
\* Line 335: draw 3.
RandomVessel(x) == Choice(vessels, x, 3) \o <<" ">> \o voyage_code(x)
\* Line 337: draws 4-7 and 8-14.
RandomContainer(x) == Choices(ascii_uppercase, 4, x, 4) \o Choices(digits, 7, x, 8)
\* Line 338: draws 15-20.
RandomSeal(x) == Choices(digits, 6, x, 15)
\* Line 348: draw 21.
RandomAgent(x) == Choice(agents, x, 21)
\* The generator after one call of extract_invoice_data.
RngAfterExtract(x) == RngAt(x, 21)

\* ------------------------------------------------------------- the record

\* Line 130: the vessel / voyage read from the text (overwritten at line 335).
vessel_voyage_extracted(raw) == find(PatVessel, raw)
\* The vessel / voyage of the text kept when there is one.
KeepExtractedVessel(raw, x) == Or(vessel_voyage_extracted(raw), RandomVessel(x))
\* Lines 335-338 and 348: what the record carries for the four randomised keys.
vessel_voyage(raw, x) == RandomVessel(x)
container_no(raw, x) == RandomContainer(x)
seal_no(raw, x) == RandomSeal(x)
delivery_agent(raw, x) == RandomAgent(x)

\* Line 84.
currency(raw) == IF Search(PatUSD, raw).ok THEN <<"USD">> ELSE NotFound

\* Line 377.
GoodsOrEmpty(goods) == IF Len(goods) > 0 THEN goods ELSE << >>

\* Lines 351-379: the returned dict.
Record(raw, x, terms, pl, pd, pr, fd, exporter, consignee_block, notify_block) ==
  [invoice_no |-> find(PatInvoiceNo, raw),
   ie_code |-> find(PatIECode, raw),
   po_no |-> find(PatPoNo, raw),
   exporter |-> exporter,
   exporter_name |-> exporter,
   consignee |-> ConsigneeBlock(consignee_block, NotifyBlock(notify_block, consignee_block)),
   notify_party |-> NotifyBlock(notify_block, consignee_block),
   country_of_origin |-> find(PatCountryOrigin, raw),
   country_of_final_destination |-> find(PatCountryDestination, raw),
   terms |-> terms,
   terms_of_payment |-> terms,
   drawback_no |-> find(PatDrawback, raw),
   benefit_scheme |-> find(PatBenefit, raw),
   total_amount |-> find(PatTotal, raw),
   currency |-> currency(raw),
   pre_carriage_by |-> Or(find(PatPreCarriageBy, raw), find(PatPreCarriage, raw)),
   vessel_voyage |-> vessel_voyage(raw, x),
   place_of_receipt |-> pr,
   place_of_acceptance |-> Or(pl, pr),
   port_of_loading |-> pl,
   port_of_discharge |-> pd,
   place_of_delivery |-> Or(pd, fd),
   final_destination |-> fd,
   container_no |-> container_no(raw, x),
   seal_no |-> seal_no(raw, x),
   goods |-> GoodsOrEmpty(Goods(raw, raw)),
   delivery_agent |-> delivery_agent(raw, x)]

\* extract_invoice_data(text) with the generator in state x.
extract_invoice_data(text, x) ==
  Record(text, x, find(PatTerms, text), port_loading(text), port_discharge(text),
         place_receipt(text), final_destination(text), ExporterBlock(text),
         ConsigneeBlock0(text), NotifyBlock0(text))

\* ---------------------------------------------------------- generate_bl_pdf

\* c.stringWidth(s, "Helvetica", 9) of line 423, in points: the width of a
\* string is the sum of the widths of its characters; a blank takes 3 points
\* and any other character 5.
BlankWidth == 3
GlyphWidth == 5
LexWidth(w) == IF w \in WS THEN BlankWidth ELSE GlyphWidth * Len(w)
RECURSIVE WidthOf(_, _, _)
WidthOf(s, a, b) ==
  IF a > b THEN 0
  ELSE IF a = b THEN LexWidth(s[a])
  ELSE WidthOf(s, a, (a + b) \div 2) + WidthOf(s, (a + b) \div 2 + 1, b)
stringWidth(s) == WidthOf(s, 1, Len(s))

\* Line 431: the distance between two lines.
LineHeight == 11

\* re.split(r"\r?\n", text) of line 416
DropCR(l) == IF Len(l) > 0 /\ l[Len(l)] = "\r" THEN SubSeq(l, 1, Len(l) - 1) ELSE l
ParagraphsOf(ls) == [p \in 1..Len(ls) |-> IF p < Len(ls) THEN DropCR(ls[p]) ELSE ls[p]]
SplitParagraphs(s) == ParagraphsOf(SplitLines(s))

\* str.split() of line 422: the maximal stretches without white space
WordStarts(s) == {i \in 1..Len(s) : s[i] \notin WS /\ (i = 1 \/ s[i - 1] \in WS)}
WordEnd(s, i) == Min({j \in i..Len(s) : j = Len(s) \/ s[j + 1] \in WS})
Nth(S, k) == CHOOSE i \in S : Cardinality({j \in S : j < i}) = k - 1
WordAt(s, i) == SubSeq(s, i, WordEnd(s, i))
Split(s) == [k \in 1..Cardinality(WordStarts(s)) |-> WordAt(s, Nth(WordStarts(s), k))]

\* Line 423: test = f"{line}{word} "
TestLine(line, word) == line \o word \o <<" ">>
\* The test of line 424 made on the line as it stands, without the word and
\* the blank that are about to be added.
FitsBefore(line, word, max_width) == stringWidth(line) < max_width
\* Line 424: the word is added to the line when the test string is narrower
\* than max_width.
Fits(line, word, max_width) == stringWidth(TestLine(line, word)) < max_width

RECURSIVE WrapWords(_, _, _, _, _)
\* Lines 423-429: the loop over the words from the k-th on, then the last line.
WrapWords(words, k, lines, line, max_width) ==
  IF k > Len(words) THEN Append(lines, Strip(line))
  ELSE IF Fits(line, words[k], max_width)
       THEN WrapWords(words, k + 1, lines, TestLine(line, words[k]), max_width)
       ELSE WrapWords(words, k + 1, Append(lines, Strip(line)), words[k] \o <<" ">>,
                      max_width)

\* Lines 418-432: what a paragraph takes of the column, line by line: an empty
\* paragraph leaves one line free, any other has its lines drawn.
Free == [drawn |-> FALSE, line |-> << >>]
Drawn(l) == [drawn |-> TRUE, line |-> l]
DrawnLines(lines) == [i \in 1..Len(lines) |-> Drawn(lines[i])]
ParaSlots(para, max_width) ==
  IF para = << >> THEN <<Free>>
  ELSE DrawnLines(WrapWords(Split(para), 1, << >>, << >>, max_width))
AllSlots(paras, max_width) ==
  Sel(LAMBDA p : ParaSlots(paras[p], max_width), 1, Len(paras))

\* Lines 430-432: c.drawString(x, y - line_offset, l), as the line and its
\* offset below y.
DrawString(slots) ==
  Sel(LAMBDA i : IF slots[i].drawn
                 THEN <<[line |-> slots[i].line, dy |-> LineHeight * (i - 1)]>>
                 ELSE << >>, 1, Len(slots))

\* Lines 413-432: the lines draw_wrapped(text, x, y, max_width) draws.
draw_wrapped(text, max_width) ==
  IF text = << >> THEN << >>
  ELSE DrawString(AllSlots(SplitParagraphs(text), max_width))

\* "sub in s" on strings
Contains(s, sub) ==
  \E i \in 0..(Len(s) - Len(sub)) : SubSeq(s, i + 1, i + Len(sub)) = sub

\* Line 496: the container and seal line of the marks column.
ExtraMarks(d) == ContSealText(d.container_no, d.seal_no)
\* Lines 492-498: the text of the marks column of a goods row.
WithExtra(marks, extra) ==
  IF Contains(marks, extra) THEN marks ELSE Strip(marks \o <<"\n">> \o extra)
sr_text(good, d) ==
  IF d.container_no # << >> /\ d.seal_no # << >>
  THEN WithExtra(good.sr_marks, ExtraMarks(d)) ELSE good.sr_marks

\* One draw_wrapped call: the label or column it fills, the goods row (0 in
\* the header and the footer), the text it is handed and the lines it draws.
Fill(under, row, text, max_width) ==
  [under |-> under, row |-> row, text |-> text, lines |-> draw_wrapped(text, max_width)]

\* Lines 436-484: the header.
HeaderFills(d) ==
  << Fill("EXPORTER / SHIPPER:", 0, d.exporter_name, 350),
     Fill("CONSIGNEE:", 0, d.consignee, 350),
     Fill("NOTIFY PARTY:", 0, d.notify_party, 350),
     Fill("PLACE OF ACCEPTANCE:", 0, d.port_of_loading, 350),
     Fill("PORT OF LOADING:", 0, d.port_of_loading, 350),
     Fill("PORT OF DISCHARGE:", 0, d.port_of_discharge, 350),
     Fill("PLACE OF DELIVERY:", 0, d.port_of_discharge, 350),
     Fill("VESSEL/VOYAGE:", 0, d.vessel_voyage, 400) >>

\* Lines 499-500: the marks column is filled when there is a text for it.
MarksFill(i, text) == IF text # << >> THEN <<Fill("marks", i, text, 200)>> ELSE << >>
\* Lines 507-510.
WeightFill(i, wm) ==
  IF wm # << >> THEN <<Fill("weight_measurements", i, wm, 140)>> ELSE << >>

\* Lines 488-510: the i-th row of the goods table.
RowFills(i, good, d) ==
  MarksFill(i, sr_text(good, d))
    \o << Fill("description", i, good.description, 430),
          Fill("units_mt", i, good.units_mt, 80),
          Fill("rate", i, good.rate, 80) >>
    \o WeightFill(i, good.weight_measurements)

\* Lines 486-510.
GoodsFills(d) == Sel(LAMBDA i : RowFills(i, d.goods[i], d), 1, Len(d.goods))

\* Lines 514-519: the footer.
FooterFills(d) == << Fill("DELIVERY AGENT:", 0, d.delivery_agent, 420) >>

\* Lines 436-519: every draw_wrapped call of generate_bl_pdf(data), in order.
Fills(d) == HeaderFills(d) \o GoodsFills(d) \o FooterFills(d)

\* -------------------------------------------------------------- bounds

MaxPages == 2        \* pages of an uploaded document
MaxSeed == 1         \* the generator starts in a state of 0..MaxSeed
MaxSegs == 2         \* segments appended to a text handed to extract_invoice_data
MaxLen == 5          \* lexemes of a text handed to draw_wrapped
MaxWidth == 20       \* the max_width handed to draw_wrapped is one of 0..MaxWidth

\* ------------------------------------------------------------ the inputs

ScenarioText ==
  <<"Invoice", " ", "No", ".", ":", " ", "INV", "-", "0", "0", "1", " ",
    "Ex", "port", "er", ":", " ", "Acme", " ", "Corp", " ",
    "Consignee", ":", " ", "Beta", " ", "Ltd", " ",
    "Notify", " ", "Party", ":", " ", "Same", " ", "as", " ", "Consignee", " ",
    "Port", " ", "of", " ", "Loading", ":", " ", "Mumbai", " ",
    "Port", " ", "of", " ", "Discharge", ":", " ", "Rotterdam">>

SegConsignee == <<"Consignee", ":", " ", "Beta", " ", "Ltd">>
SegNotifySame ==
  <<"Notify", " ", "Party", ":", " ", "SAME", " ", "AS", " ", "CONSIGNEE">>
SegNotifyOther == <<"Notify", " ", "Party", ":", " ", "Acme", " ", "Corp">>
SegLoading == <<"Port", " ", "of", " ", "Loading", ":", " ", "Mumbai">>
SegDischarge == <<"Port", " ", "of", " ", "Discharge", ":", " ", "Rotterdam">>
SegDelivery == <<"Place", " ", "of", " ", "Delivery", ":", " ", "Hamburg">>
SegReceipt == <<"Place", " ", "of", " ", "Receipt", ":", " ", "Delhi">>
SegVessel ==
  <<"Vessel", "/", "Voyage", ":", " ", "EVER", " ", "GIVEN", " ", "V", ".", "1", "2", "3",
    "A">>
SegContSeal ==
  <<"Container", " ", "&", " ", "Seal", " ", "nos", ".", ":", " ", "M", "S", "K", "U", "1",
    "2", "3", "4", "5", "6", "7", " ", "/", " ", "1", "2", "3", "4", "5", "6">>
SegGoods ==
  <<"HS", " ", "CODE", ":", " ", "0", "9", "0", "2", "4", "0", " ", "Tea", " ",
    "QUANTITY", ":", " ", "1", "0", "0", " ", "PCS", " ", "WEIGHT", ":", " ", "5", "0", " ",
    "KGS", " ", "PACKING", ":", " ", "2", "0", " ", "CARTONS">>
SegTerms ==
  <<"Terms", " ", "of", " ", "Payment", ":", " ", "3", "0", " ", "days", "\n", "Net", " ",
    "USD">>
SegInvoice == <<"Invoice", " ", "No", ".", ":", " ", "INV", "-", "0", "0", "1">>

\* What is appended to a text: a separator and a segment.
Seps == {<<" ">>, <<"\n">>}
Segments ==
  { SegConsignee, SegNotifySame, SegNotifyOther, SegLoading, SegDischarge, SegDelivery,
    SegReceipt, SegVessel, SegContSeal, SegGoods, SegTerms }
BaseTexts == {<< >>, ScenarioText}

\* page.extract_text() returns None or a str; image_to_string returns a str.
NoneText == [some |-> FALSE, text |-> << >>]
Str(t) == [some |-> TRUE, text |-> t]
LayerPool ==
  { NoneText, Str(<< >>), Str(<<" ">>), Str(ScenarioText), Str(SegConsignee),
    Str(<<" ">> \o SegInvoice \o <<"\n">> \o SegDischarge \o <<" ">> \o SegDelivery) }
OcrPool ==
  { << >>, <<" ", "\n">>, SegInvoice \o <<" ">>, SegReceipt \o <<"\n">> \o SegContSeal }

Filenames ==
  { <<"invoice", ".", "pdf">>, <<"INVOICE", ".", "PDF">>, <<"invoice", ".", "txt">>,
    <<"invoice", "_", "pdf">>, <<"invoice", ".", "pdf", ".", "txt">> }
Endpoints == {"generate-bl", "generate-bl-json"}
\* What a text handed to draw_wrapped is made of.
WrapLexemes == {"a", "wide", " ", "\n"}
Seeds == 0..MaxSeed

\* --------------------------------------------------------------- the state

VARIABLES
  pc,        \* where the request handler (or the direct call) stands
  endpoint,  \* the route of the request
  filename,  \* invoice_pdf.filename
  pdf_bytes, \* "unread", or what invoice_pdf.read() returned: "empty" or "pdf"
  npages,    \* pages of the opened document
  page,      \* the page the current pass is at
  layers,    \* what page.extract_text() returned, page by page
  ocrs,      \* what pytesseract.image_to_string returned, page by page
  engine,    \* the engine invocations in order: <<"text", i>> and <<"ocr", i>>
  text,      \* the text accumulated, then returned, then handed to extraction
  calls,     \* the functions invoked for the request, in order
  data,      \* the record extract_invoice_data returned
  response,  \* the HTTP response
  rng,       \* the state of the process-wide random generator
  rng0,      \* the generator state the last extract_invoice_data call started from
  nsegs,     \* the segments appended to the argument of a direct call
  handles,   \* the document and image handles opened and not released
  drawn,     \* the draw_wrapped calls of generate_bl_pdf with the lines they drew
  wrap_width \* the max_width of a direct call of draw_wrapped

vars ==
  <<pc, endpoint, filename, pdf_bytes, npages, page, layers, ocrs, engine, text, calls,
    data, response, rng, rng0, nsegs, handles, drawn, wrap_width>>

NoData == [none |-> TRUE]
NoResponse == [status |-> 0]

InitCommon ==
  /\ endpoint = "none"
  /\ filename = << >>
  /\ pdf_bytes = "unread"
  /\ npages = 0
  /\ page = 0
  /\ layers = << >>
  /\ ocrs = << >>
  /\ engine = << >>
  /\ calls = << >>
  /\ data = NoData
  /\ response = NoResponse
  /\ rng \in Seeds
  /\ rng0 = rng
  /\ nsegs = 0
  /\ handles = {}
  /\ drawn = << >>
  /\ wrap_width = 0

Init ==
  /\ pc = "idle"
  /\ text = << >>
  /\ InitCommon

\* -------------------------------------------------------------- the routes

\* The handles of a request: the document pdfplumber.open returns (line 30),
\* the page images convert_from_bytes returns (line 37) and the template
\* image Image.open returns (line 393).
PdfHandle == <<"pdf", 0>>
PageImages(n) == {<<"page_image", i>> : i \in 1..n}
TemplateHandle == <<"template", 0>>

HTTPException(status, detail) == [status |-> status, detail |-> detail]
\* An exception no handler catches: the framework answers 500.
ServerError == [status |-> 500, detail |-> "Internal Server Error"]

\* The test of lines 542 and 576 made on the letters only: endswith("pdf").
EndsWithPdfNoDot(fn) == Len(fn) >= 1 /\ Fold(fn[Len(fn)]) = "pdf"
\* Lines 542 and 576: invoice_pdf.filename.lower().endswith(".pdf")
EndsWithPdf(fn) ==
  Len(fn) >= 2 /\ fn[Len(fn) - 1] = "." /\ Fold(fn[Len(fn)]) = "pdf"

\* dict.get(key, default) on the record
DictGet(d, key, default) == IF key \in DOMAIN d THEN d[key] ELSE default

\* Line 571: the Content-Disposition file name.
AttachmentName(d) ==
  <<"BL", "_">> \o DictGet(d, "invoice_no", <<"Unknown">>) \o <<".", "pdf">>

\* A request arrives at one of the two POST routes.
Receive(ep, fn) ==
  /\ pc = "idle"
  /\ pc' = "name"
  /\ endpoint' = ep
  /\ filename' = fn
  /\ UNCHANGED <<pdf_bytes, npages, page, layers, ocrs, engine, text, calls, data,
                 response, rng, rng0, nsegs, handles, drawn, wrap_width>>

\* Lines 542-543 and 576-577.
CheckName ==
  /\ pc = "name"
  /\ IF ~EndsWithPdf(filename)
     THEN /\ response' = HTTPException(400, "Only PDF files are accepted")
          /\ pc' = "done"
     ELSE /\ pc' = "read"
          /\ UNCHANGED response
  /\ UNCHANGED <<endpoint, filename, pdf_bytes, npages, page, layers, ocrs, engine,
                 text, calls, data, rng, rng0, nsegs, handles, drawn, wrap_width>>

\* Lines 545 and 579: the body is read; it is empty or it is a document.
ReadBody(body) ==
  /\ pc = "read"
  /\ pdf_bytes' = body
  /\ calls' = Append(calls, "read")
  /\ pc' = "open"
  /\ UNCHANGED <<endpoint, filename, npages, page, layers, ocrs, engine, text, data,
                 response, rng, rng0, nsegs, handles, drawn, wrap_width>>

\* What pdfplumber.open may do with a buffer: a document opens with its pages;
\* on the empty buffer the library raises or yields a document of no pages.
OpenOutcomes(body) ==
  IF body = "empty" THEN {[raised |-> TRUE, n |-> 0], [raised |-> FALSE, n |-> 0]}
  ELSE {[raised |-> FALSE, n |-> n] : n \in 1..MaxPages}

\* Lines 30-31 (called from lines 546 and 580).
OpenPdf(o) ==
  /\ pc = "open"
  /\ o \in OpenOutcomes(pdf_bytes)
  /\ calls' = Append(calls, "extract_text_from_pdf")
  /\ text' = << >>
  /\ IF o.raised
     THEN /\ response' = ServerError
          /\ pc' = "done"
          /\ UNCHANGED <<npages, page, handles>>
     ELSE /\ npages' = o.n
          /\ page' = 1
          /\ handles' = handles \cup {PdfHandle}
          /\ pc' = "layer"
          /\ UNCHANGED response
  /\ UNCHANGED <<endpoint, filename, pdf_bytes, layers, ocrs, engine, data, rng, rng0,
                 nsegs, drawn, wrap_width>>

\* Lines 32-35: one page of the text-layer pass.
LayerPage(t) ==
  /\ pc = "layer"
  /\ page <= npages
  /\ layers' = Append(layers, t)
  /\ engine' = Append(engine, <<"text", page>>)
  /\ text' = IF t.some /\ t.text # << >> THEN text \o t.text \o <<"\n">> ELSE text
  /\ page' = page + 1
  /\ UNCHANGED <<pc, endpoint, filename, pdf_bytes, npages, ocrs, calls, data,
                 response, rng, rng0, nsegs, handles, drawn, wrap_width>>

\* Lines 30-33: page.extract_text() raises; the with block releases the
\* document on the way out and nothing catches the exception.
LayerRaise ==
  /\ pc = "layer"
  /\ page <= npages
  /\ engine' = Append(engine, <<"text", page>>)
  /\ handles' = handles \ {PdfHandle}
  /\ response' = ServerError
  /\ pc' = "done"
  /\ UNCHANGED <<endpoint, filename, pdf_bytes, npages, page, layers, ocrs, text, calls,
                 data, rng, rng0, nsegs, drawn, wrap_width>>

\* The test of line 36 without the strip: "if not text".
NeedsOcrWhenEmpty(t) == t = << >>
\* Line 36: "if not text.strip()".
NeedsOcr(t) == Strip(t) = << >>

\* What convert_from_bytes may do: a document is rasterised page by page; on
\* the empty buffer the library raises or yields no image.
RasterOutcomes(body) == IF body = "empty" THEN {TRUE, FALSE} ELSE {FALSE}

\* Lines 30-37: the text-layer pass is over and the with block releases the
\* document; the OCR pass starts or not, on the images of all the pages.
EndLayer(raised) ==
  /\ pc = "layer"
  /\ page > npages
  /\ IF NeedsOcr(text)
     THEN /\ raised \in RasterOutcomes(pdf_bytes)
          /\ IF raised
             THEN /\ response' = ServerError
                  /\ pc' = "done"
                  /\ handles' = handles \ {PdfHandle}
                  /\ UNCHANGED page
             ELSE /\ pc' = "ocr"
                  /\ page' = 1
                  /\ handles' = (handles \ {PdfHandle}) \cup PageImages(npages)
                  /\ UNCHANGED response
     ELSE /\ raised = FALSE
          /\ pc' = "return"
          /\ handles' = handles \ {PdfHandle}
          /\ UNCHANGED <<page, response>>
  /\ UNCHANGED <<endpoint, filename, pdf_bytes, npages, layers, ocrs, engine, text, calls,
                 data, rng, rng0, nsegs, drawn, wrap_width>>

\* Lines 37-38: one page of the OCR pass.
OcrPage(o) ==
  /\ pc = "ocr"
  /\ page <= npages
  /\ ocrs' = Append(ocrs, o)
  /\ engine' = Append(engine, <<"ocr", page>>)
  /\ text' = text \o o \o <<"\n">>
  /\ page' = page + 1
  /\ UNCHANGED <<pc, endpoint, filename, pdf_bytes, npages, layers, calls, data,
                 response, rng, rng0, nsegs, handles, drawn, wrap_width>>

\* Line 38: the OCR pass is over.
EndOcr ==
  /\ pc = "ocr"
  /\ page > npages
  /\ pc' = "return"
  /\ UNCHANGED <<endpoint, filename, pdf_bytes, npages, page, layers, ocrs, engine,
                 text, calls, data, response, rng, rng0, nsegs, handles, drawn,
                 wrap_width>>

\* The accumulated text returned as it stands.
ReturnedUntrimmed(t) == t
\* Line 39: what extract_text_from_pdf returns.
ReturnedText(t) == Strip(t)

\* Lines 39, 546 and 580.
ReturnText ==
  /\ pc = "return"
  /\ text' = ReturnedText(text)
  /\ pc' = "route"
  /\ UNCHANGED <<endpoint, filename, pdf_bytes, npages, page, layers, ocrs, engine,
                 calls, data, response, rng, rng0, nsegs, handles, drawn, wrap_width>>

\* Lines 547-548 and 581-582.
CheckText ==
  /\ pc = "route"
  /\ IF text = << >>
     THEN /\ response' = HTTPException(422, "No readable text found in PDF")
          /\ pc' = "done"
     ELSE /\ pc' = "extract"
          /\ UNCHANGED response
  /\ UNCHANGED <<endpoint, filename, pdf_bytes, npages, page, layers, ocrs, engine,
                 text, calls, data, rng, rng0, nsegs, handles, drawn, wrap_width>>

\* Lines 550 and 584.
Extract ==
  /\ pc = "extract"
  /\ data' = extract_invoice_data(text, rng)
  /\ rng0' = rng
  /\ rng' = RngAfterExtract(rng)
  /\ calls' = Append(calls, "extract_invoice_data")
  /\ pc' = IF endpoint = "generate-bl" THEN "render" ELSE "json"
  /\ UNCHANGED <<endpoint, filename, pdf_bytes, npages, page, layers, ocrs, engine,
                 text, response, nsegs, handles, drawn, wrap_width>>

\* What loading the template may do (lines 391-404): the file is there and is
\* drawn, the file is missing, Image.open raises, or the image opens and
\* drawing it raises.
TemplateOutcomes == {"loaded", "missing", "open raises", "draw raises"}
\* bg is not None (line 406)
Opened(o) == o \in {"loaded", "draw raises"}

\* Lines 391-404 (called from line 565): the template is loaded, or the page
\* falls back to A4.
OpenTemplate(o) ==
  /\ pc = "render"
  /\ calls' = Append(calls, "generate_bl_pdf")
  /\ handles' = IF Opened(o) THEN handles \cup {TemplateHandle} ELSE handles
  /\ pc' = "finally"
  /\ UNCHANGED <<endpoint, filename, pdf_bytes, npages, page, layers, ocrs, engine, text,
                 data, response, rng, rng0, nsegs, drawn, wrap_width>>

\* Lines 405-410: the finally clause closes the image that was opened.
CloseTemplate ==
  /\ pc = "finally"
  /\ handles' = handles \ {TemplateHandle}
  /\ pc' = "draw"
  /\ UNCHANGED <<endpoint, filename, pdf_bytes, npages, page, layers, ocrs, engine, text,
                 calls, data, response, rng, rng0, nsegs, drawn, wrap_width>>

\* Lines 411-535: the record is drawn and the document returned.
DrawPdf ==
  /\ pc = "draw"
  /\ drawn' = Fills(data)
  /\ pc' = "respond"
  /\ UNCHANGED <<endpoint, filename, pdf_bytes, npages, page, layers, ocrs, engine, text,
                 calls, data, response, rng, rng0, nsegs, handles, wrap_width>>

\* Lines 567-571.
RespondPdf ==
  /\ pc = "respond"
  /\ response' = [status |-> 200, media_type |-> "application/pdf",
                  filename |-> AttachmentName(data)]
  /\ pc' = "done"
  /\ UNCHANGED <<endpoint, filename, pdf_bytes, npages, page, layers, ocrs, engine, text,
                 calls, data, rng, rng0, nsegs, handles, drawn, wrap_width>>

\* Line 585.
RespondJson ==
  /\ pc = "json"
  /\ response' = [status |-> 200, media_type |-> "application/json", content |-> data]
  /\ pc' = "done"
  /\ UNCHANGED <<endpoint, filename, pdf_bytes, npages, page, layers, ocrs, engine,
                 text, calls, data, rng, rng0, nsegs, handles, drawn, wrap_width>>

Next ==
  \/ \E ep \in Endpoints, fn \in Filenames : Receive(ep, fn)
  \/ CheckName
  \/ \E body \in {"empty", "pdf"} : ReadBody(body)
  \/ \E o \in OpenOutcomes(pdf_bytes) : OpenPdf(o)
  \/ \E t \in LayerPool : LayerPage(t)
  \/ LayerRaise
  \/ \E raised \in BOOLEAN : EndLayer(raised)
  \/ \E o \in OcrPool : OcrPage(o)
  \/ EndOcr
  \/ ReturnText
  \/ CheckText
  \/ Extract
  \/ \E o \in TemplateOutcomes : OpenTemplate(o)
  \/ CloseTemplate
  \/ DrawPdf
  \/ RespondPdf
  \/ RespondJson

\* The two POST routes serving one request.
Spec == Init /\ [][Next]_vars

\* ------------------------------------- extract_invoice_data called directly

InitExtract ==
  /\ pc = "arg"
  /\ text \in BaseTexts
  /\ InitCommon

\* The argument grows by a separator and a segment.
AppendSegment(sep, seg) ==
  /\ pc = "arg"
  /\ nsegs < MaxSegs
  /\ nsegs' = nsegs + 1
  /\ text' = IF text = << >> THEN seg ELSE text \o sep \o seg
  /\ UNCHANGED <<pc, endpoint, filename, pdf_bytes, npages, page, layers, ocrs, engine,
                 calls, data, response, rng, rng0, handles, drawn, wrap_width>>

\* extract_invoice_data(text) is called and returns.
CallExtract ==
  /\ pc = "arg"
  /\ data' = extract_invoice_data(text, rng)
  /\ rng0' = rng
  /\ rng' = RngAfterExtract(rng)
  /\ calls' = Append(calls, "extract_invoice_data")
  /\ pc' = "called"
  /\ UNCHANGED <<endpoint, filename, pdf_bytes, npages, page, layers, ocrs, engine,
                 text, response, nsegs, handles, drawn, wrap_width>>

\* generate_bl_pdf(data) is called on the record and returns.
CallGenerate ==
  /\ pc = "called"
  /\ drawn' = Fills(data)
  /\ calls' = Append(calls, "generate_bl_pdf")
  /\ pc' = "rendered"
  /\ UNCHANGED <<endpoint, filename, pdf_bytes, npages, page, layers, ocrs, engine, text,
                 data, response, rng, rng0, nsegs, handles, wrap_width>>

NextExtract ==
  \/ \E sep \in Seps, seg \in Segments : AppendSegment(sep, seg)
  \/ CallExtract
  \/ CallGenerate

SpecExtract == InitExtract /\ [][NextExtract]_vars

\* ---------------------------------------------- draw_wrapped called directly

InitWrap ==
  /\ pc = "text"
  /\ text = << >>
  /\ endpoint = "none"
  /\ filename = << >>
  /\ pdf_bytes = "unread"
  /\ npages = 0
  /\ page = 0
  /\ layers = << >>
  /\ ocrs = << >>
  /\ engine = << >>
  /\ calls = << >>
  /\ data = NoData
  /\ response = NoResponse
  /\ rng = 0
  /\ rng0 = 0
  /\ nsegs = 0
  /\ handles = {}
  /\ drawn = << >>
  /\ wrap_width \in 0..MaxWidth

\* The text grows by a lexeme.
AppendLexeme(w) ==
  /\ pc = "text"
  /\ Len(text) < MaxLen
  /\ text' = Append(text, w)
  /\ UNCHANGED <<pc, endpoint, filename, pdf_bytes, npages, page, layers, ocrs, engine,
                 calls, data, response, rng, rng0, nsegs, handles, drawn, wrap_width>>

\* draw_wrapped(text, x, y, max_width) is called and returns.
CallWrap ==
  /\ pc = "text"
  /\ drawn' = <<Fill("draw_wrapped", 0, text, wrap_width)>>
  /\ calls' = Append(calls, "draw_wrapped")
  /\ pc' = "wrapped"
  /\ UNCHANGED <<endpoint, filename, pdf_bytes, npages, page, layers, ocrs, engine, text,
                 data, response, rng, rng0, nsegs, handles, wrap_width>>

NextWrap ==
  \/ \E w \in WrapLexemes : AppendLexeme(w)
  \/ CallWrap

SpecWrap == InitWrap /\ [][NextWrap]_vars

\* ------------------------------------------------- claims on the routes

CalledFn(f) == \E i \in 1..Len(calls) : calls[i] = f
\* A text-layer result or an OCR result without a character other than
\* white space.
BlankLayer(t) == ~t.some \/ Strip(t.text) = << >>
BlankOcr(o) == Strip(o) = << >>
\* Both passes went over every page of a document and yielded white space only.
BlankPasses ==
  /\ npages >= 1
  /\ Len(layers) = npages /\ \A i \in 1..npages : BlankLayer(layers[i])
  /\ Len(ocrs) = npages /\ \A i \in 1..npages : BlankOcr(ocrs[i])
\* The request is being served past the readable-text check.
PastTextCheck == pc \in {"extract", "render", "finally", "draw", "respond", "json"}

\* C1: on both routes, when the text-layer pass and the OCR pass of a
\* .pdf-named upload yield white space only, the request ends with 422 and
\* neither extract_invoice_data nor generate_bl_pdf is invoked.
C1_BlankDocumentIs422 ==
  BlankPasses =>
    /\ ~CalledFn("extract_invoice_data") /\ ~CalledFn("generate_bl_pdf")
    /\ ~PastTextCheck
    /\ pc = "done" => response.status = 422
\* A request answered 422 whose passes yielded blanks and line breaks.
C1_Witness ==
  /\ pc = "done" /\ BlankPasses /\ response.status = 422
  /\ \E i \in 1..npages : layers[i].some /\ layers[i].text # << >>
  /\ \E i \in 1..npages : ocrs[i] # << >>

\* The name, lower-cased, ends in ".pdf".
NameEndsInDotPdf(fn) ==
  Len(fn) >= 2 /\ FoldSeq(SubSeq(fn, Len(fn) - 1, Len(fn))) = <<".", "pdf">>

\* C2: on both routes, an upload whose lower-cased name does not end in ".pdf"
\* is rejected with 400 before anything else: the body is not read and none of
\* extract_text_from_pdf, extract_invoice_data, generate_bl_pdf is invoked.
C2_OtherNamesRejected ==
  (pc \notin {"idle", "name"} /\ ~NameEndsInDotPdf(filename)) =>
    /\ pc = "done" /\ response.status = 400
    /\ calls = << >> /\ pdf_bytes = "unread"
\* A request for a name ending in "_pdf", answered 400.
C2_Witness ==
  /\ pc = "done" /\ response.status = 400
  /\ filename # << >> /\ filename[Len(filename)] = "pdf" /\ ~NameEndsInDotPdf(filename)

\* C3: on both routes, a .pdf-named upload with an empty payload is rejected
\* with a client error (4xx), whatever the PDF library does with the empty
\* buffer.
C3_EmptyPayloadRejected ==
  (pc = "done" /\ pdf_bytes = "empty") => response.status \in 400..499

\* The text-layer results concatenated as lines 32-35 do: a result that is
\* None or empty adds nothing, any other adds itself and a line break.
LayerLine(t) == IF ~t.some \/ t.text = << >> THEN << >> ELSE t.text \o <<"\n">>
RECURSIVE LayerConcat(_)
LayerConcat(ls) ==
  IF ls = << >> THEN << >>
  ELSE LayerConcat(SubSeq(ls, 1, Len(ls) - 1)) \o LayerLine(ls[Len(ls)])
\* The engine invocations of a pass over the pages 1..n, in page order.
PassOver(kind, n) == [i \in 1..n |-> <<kind, i>>]
OcrInvoked == \E i \in 1..Len(engine) : engine[i][1] = "ocr"
\* extract_text_from_pdf has returned.
TextReturned ==
  PastTextCheck \/ pc = "route" \/ (pc = "done" /\ response.status \in {200, 422})

\* C4: the OCR engine is invoked iff the concatenation of the text-layer
\* results of all pages is empty or white space; the OCR pass starts after the
\* text-layer pass over every page and runs over every page in page order;
\* when a page has text-layer text that is not white space, OCR is not invoked
\* and the returned text is the trimmed text-layer concatenation.
C4_OcrOnlyForBlankLayers ==
  /\ OcrInvoked =>
       /\ Len(layers) = npages /\ Strip(LayerConcat(layers)) = << >>
       /\ \E k \in 1..npages : engine = PassOver("text", npages) \o PassOver("ocr", k)
  /\ (TextReturned /\ Strip(LayerConcat(layers)) = << >>) =>
       engine = PassOver("text", npages) \o PassOver("ocr", npages)
  /\ (TextReturned /\ Strip(LayerConcat(layers)) # << >>) =>
       /\ engine = PassOver("text", npages)
       /\ text = Strip(LayerConcat(layers))
\* A document of two pages, one with a blank for its text layer, whose OCR
\* pass has run, and the text returned.
C4_Witness ==
  /\ pc = "route" /\ npages = 2 /\ OcrInvoked
  /\ \E i \in 1..npages : layers[i].some /\ layers[i].text # << >>
  /\ text # << >>

\* ------------------------------------------------- claims on the record

Range(seq) == {seq[i] : i \in 1..Len(seq)}
AllIn(s, a, b, set) == \A i \in a..b : s[i] \in set
\* "V." + 3 digits + one letter of A-E
IsVoyageCode(c) ==
  /\ Len(c) = 6 /\ c[1] = "V" /\ c[2] = "."
  /\ AllIn(c, 3, 5, DigitWords) /\ c[6] \in {"A", "B", "C", "D", "E"}
\* a name of the vessel pool, a blank and a voyage code
IsVesselVoyage(v) ==
  \E n \in Range(vessels) :
    /\ Len(v) = Len(n) + 7
    /\ SubSeq(v, 1, Len(n) + 1) = n \o <<" ">>
    /\ IsVoyageCode(SubSeq(v, Len(n) + 2, Len(v)))
\* 4 upper-case letters + 7 digits
IsContainerNo(c) ==
  Len(c) = 11 /\ AllIn(c, 1, 4, Range(ascii_uppercase)) /\ AllIn(c, 5, 11, DigitWords)
\* 6 digits
IsSealNo(c) == Len(c) = 6 /\ AllIn(c, 1, 6, DigitWords)

TextBlockKeys == {"exporter", "exporter_name", "consignee", "notify_party"}
SingleLineKeys == (DOMAIN data) \ (TextBlockKeys \cup {"goods"})
\* A string without a line break and without white space at either end.
SingleLine(v) == (\A i \in 1..Len(v) : v[i] \notin Newline) /\ Strip(v) = v

\* C11: in every record extract_invoice_data returns, each top-level string
\* field other than exporter, exporter_name, consignee and notify_party has no
\* line break and no leading or trailing white space.
C11_FieldsSingleLine ==
  data # NoData => \A k \in SingleLineKeys : SingleLine(data[k])

\* ------------------------------------------------ claims on the rendering

\* The lines the draw_wrapped calls have drawn.
LinesDrawn ==
  UNION {{drawn[f].lines[i].line : i \in 1..Len(drawn[f].lines)} : f \in 1..Len(drawn)}
NumWords(l) == Cardinality(WordStarts(l))

\* C12: every line draw_wrapped draws is at most max_width wide, unless it is
\* a single word that is by itself wider than max_width: a drawn line wider
\* than max_width has exactly one word, so no line of two or more words is
\* wider than max_width.
C12_WrappedLinesFit ==
  pc = "wrapped" =>
    \A l \in LinesDrawn : stringWidth(l) > wrap_width => NumWords(l) = 1
\* A call that drew a line of two words and a line of one word wider than
\* max_width.
C12_Witness ==
  /\ pc = "wrapped"
  /\ \E l \in LinesDrawn : NumWords(l) >= 2
  /\ \E l \in LinesDrawn : NumWords(l) = 1 /\ stringWidth(l) > wrap_width

\* The handles the function that is running at p may hold: the document
\* inside the with block of extract_text_from_pdf, the page images until the
\* function returns, the template image until the finally clause of
\* generate_bl_pdf.
HeldAt(p) ==
  IF p = "layer" THEN {PdfHandle}
  ELSE IF p \in {"ocr", "return"} THEN PageImages(npages)
  ELSE IF p = "finally" THEN {TemplateHandle}
  ELSE {}

\* C13: every document or image handle opened while serving a request is
\* released by the time the function that opened it returns or raises: the
\* document and the page images of extract_text_from_pdf, the template image
\* of generate_bl_pdf.
C13_HandlesReleased == handles \subseteq HeldAt(pc)

\* The positions of s at which sub occurs, whatever the case of the letters.
Occurrences(s, sub) ==
  {i \in 1..(Len(s) - Len(sub) + 1) : FoldSeq(SubSeq(s, i, i + Len(sub) - 1)) = FoldSeq(sub)}
ContSealWords == ContSealText(<< >>, << >>)
PairLabel == SubSeq(ContSealWords, 1, Len(ContSealWords) - 3)
\* The marks columns that were filled.
MarksDrawn == {f \in 1..Len(drawn) : drawn[f].under = "marks"}

\* C14: in a rendered record the marks column of each goods row shows at most
\* one container / seal pair, and that pair is the record's container_no and
\* seal_no.
C14_OnePairInMarks ==
  pc = "rendered" =>
    \A f \in MarksDrawn :
      /\ Cardinality(Occurrences(drawn[f].text, PairLabel)) <= 1
      /\ Occurrences(drawn[f].text, PairLabel) \subseteq
           Occurrences(drawn[f].text, ExtraMarks(data))

\* The text handed to the draw_wrapped call under a label of the header.
DrawnUnder(label) == drawn[CHOOSE f \in 1..Len(drawn) : drawn[f].under = label].text

\* C15: what generate_bl_pdf draws under "PLACE OF ACCEPTANCE:" is the
\* record's place_of_acceptance, and what it draws under "PLACE OF DELIVERY:"
\* is the record's place_of_delivery.
C15_PlacesDrawn ==
  pc = "rendered" =>
    /\ DrawnUnder("PLACE OF ACCEPTANCE:") = data.place_of_acceptance
    /\ DrawnUnder("PLACE OF DELIVERY:") = data.place_of_delivery

\* ------------------------------------------- claims on blocks and goods

BetaLtd == <<"Beta", " ", "Ltd">>
\* "Notify Party: Same as Consignee"
NotifySameAsConsignee ==
  <<"Notify", " ", "Party", ":", " ", "Same", " ", "as", " ", "Consignee">>
\* "Consignee: " at the start of the text or after white space
HasConsigneeLabel(s) ==
  \E i \in Occurrences(s, <<"Consignee", ":", " ">>) :
    (i = 1 \/ s[i - 1] \in WS) /\ i \notin {j + 9 : j \in Occurrences(s, NotifySameAsConsignee)}

\* C6: when the text has a Consignee label with a value and a Notify Party
\* label whose text is "Same as Consignee" in any letter case, the returned
\* notify_party equals the returned consignee; for the scenario text both are
\* "Beta Ltd".
C6_NotifyMirrorsConsignee ==
  pc = "called" =>
    /\ (HasConsigneeLabel(text) /\ Occurrences(text, NotifySameAsConsignee) # {}) =>
         (data.consignee # << >> /\ data.notify_party = data.consignee)
    /\ text = ScenarioText =>
         (data.consignee = BetaLtd /\ data.notify_party = BetaLtd)

\* The fields read as a block after a label, and the labels of the texts.
BlockKeys ==
  {"exporter", "consignee", "notify_party", "place_of_receipt", "port_of_loading",
   "port_of_discharge", "final_destination"}
KnownLabels ==
  { <<"Consignee", ":">>, <<"Notify", " ", "Party", ":">>,
    <<"Port", " ", "of", " ", "Loading", ":">>, <<"Port", " ", "of", " ", "Discharge", ":">>,
    <<"Place", " ", "of", " ", "Delivery", ":">>, <<"Place", " ", "of", " ", "Receipt", ":">>,
    <<"Vessel", "/", "Voyage", ":">>, <<"Terms", " ", "of", " ", "Payment", ":">>,
    <<"Invoice", " ", "No", ".", ":">> }

\* C7: the value of exporter, consignee, notify_party, place_of_receipt,
\* port_of_loading, port_of_discharge and final_destination is the text after
\* the field's label up to the nearest following label, so it holds no label;
\* for the scenario text port_of_loading is "Mumbai" and port_of_discharge is
\* "Rotterdam".
C7_BlocksStopAtNextLabel ==
  pc = "called" =>
    /\ \A k \in BlockKeys : \A l \in KnownLabels : Occurrences(data[k], l) = {}
    /\ text = ScenarioText =>
         (data.port_of_loading = <<"Mumbai">> /\ data.port_of_discharge = <<"Rotterdam">>)

\* The repeating pattern of line 173 matches nowhere in the text.
NoLineItems == goods_matches(text) = << >>

\* C8 as stated: the goods key is present, and goods is the empty sequence when
\* the repeating HS code -> quantity -> weight -> packing pattern matches zero
\* times.
C8_GoodsEmptyWithoutItems ==
  pc = "called" => ("goods" \in DOMAIN data /\ (NoLineItems => data.goods = << >>))

\* C8 amended: the goods key is present; when the repeating pattern matches
\* zero times, goods holds exactly one synthesized line, whose quantity,
\* weight, packing and unit are empty; otherwise it holds one line per match.
C8_GoodsOneLineWithoutItems ==
  pc = "called" =>
    /\ "goods" \in DOMAIN data
    /\ NoLineItems =>
         /\ Len(data.goods) = 1
         /\ \A k \in {"quantity", "weight", "packing", "unit"} : data.goods[1][k] = << >>
    /\ ~NoLineItems => Len(data.goods) = Len(goods_matches(text))
\* A record of a text with labels and no line item.
C8_Witness ==
  pc = "called" /\ text # << >> /\ NoLineItems /\ Len(data.goods) = 1

RandomizedKeys == {"vessel_voyage", "container_no", "seal_no", "delivery_agent"}

\* C9: on the empty text every top-level field other than vessel_voyage,
\* container_no, seal_no, delivery_agent and goods is the empty string, and
\* goods holds at most one line.
C9_EmptyTextEmptyFields ==
  (pc = "called" /\ text = << >>) =>
    /\ \A k \in (DOMAIN data) \ (RandomizedKeys \cup {"goods"}) : data[k] = << >>
    /\ Len(data.goods) <= 1

\* C10: a successful POST /generate-bl/ response carries the attachment file
\* name BL_<invoice_no>.pdf when the invoice number is not empty and
\* BL_Unknown.pdf when it is the empty string.
C10_AttachmentName ==
  (pc = "done" /\ endpoint = "generate-bl" /\ response.status = 200) =>
    response.filename =
      <<"BL", "_">> \o (IF data.invoice_no # << >> THEN data.invoice_no ELSE <<"Unknown">>)
        \o <<".", "pdf">>

====
